---- MODULE Spec2Model ----
(***************************************************************************)
(* Model of src/src/main.rs: the band-partitioned Mandelbrot renderer.     *)
(*                                                                         *)
(* f64 values are modelled bit-exactly (IEEE-754 binary64, round to        *)
(* nearest, ties to even) as sign / odd mantissa / exponent triples whose  *)
(* mantissa is an arbitrary-precision natural number kept as a sequence of *)
(* 15-bit limbs, least significant first.  Infinities, NaNs, subnormals    *)
(* and the sign of zero are not represented: every input drawn below keeps *)
(* all intermediate values finite, normal and far from the exponent limits.*)
(***************************************************************************)
EXTENDS Integers, Sequences, FiniteSets, TLC

\* ------------------------------------------------------------------------
\* State
\* ------------------------------------------------------------------------

VARIABLES
  bounds,        \* argument of render_concurrent: <<width, height>>
  upper_left,    \* argument of render_concurrent
  lower_right,   \* argument of render_concurrent
  pc,            \* main thread: "start", "scope", "returned", "panicked"
  pixels,        \* the Vec<u8>, a function on 0..len-1
  rows_per_band, \* local of render_concurrent
  bands,         \* the chunks: [off, len] of each &mut [u8] into pixels
  next_band,     \* index i of the next band the spawning loop takes
  workers,       \* the spawned threads, workers[i + 1] renders band i
  writers,       \* history: for each index, the bands that wrote it, in order
  counts,        \* history: for each index, the escape_time result shaded into it
  probe,         \* escape_time called on its own: [c, limit, result]
  corner_points, \* pixel_to_point on the calls of lines 63-65 of this run
  escape_counts  \* escape_time(pixel_to_point(..), 255) on the calls of render

vars == <<bounds, upper_left, lower_right, pc, pixels, rows_per_band, bands,
          next_band, workers, writers, counts, probe, corner_points,
          escape_counts>>

\* What no step changes: the arguments, and the values of the pure functions.
args == <<bounds, upper_left, lower_right, corner_points, escape_counts>>

\* ------------------------------------------------------------------------
\* Arbitrary-precision naturals (support for the f64 model)
\* ------------------------------------------------------------------------

\* Bits per limb and the limb base 2^15: a limb product plus two carries
\* stays below 2^31.
LimbBits == 15

LimbBase == 32768

RECURSIVE Pow2(_)
Pow2(n) == IF n = 0 THEN 1 ELSE 2 * Pow2(n - 1)

\* Number of bits of a natural below LimbBase.
RECURSIVE SmallBitLen(_)
SmallBitLen(n) == IF n = 0 THEN 0 ELSE 1 + SmallBitLen(n \div 2)

\* Drop most-significant zero limbs.
RECURSIVE BigNorm(_)
BigNorm(a) ==
  IF a = <<>> THEN a
  ELSE IF a[Len(a)] = 0 THEN BigNorm(SubSeq(a, 1, Len(a) - 1))
  ELSE a

BigFromInt(n) ==
  IF n = 0 THEN <<>>
  ELSE IF n < LimbBase THEN <<n>>
  ELSE IF n < LimbBase * LimbBase THEN <<n % LimbBase, n \div LimbBase>>
  ELSE <<n % LimbBase, (n \div LimbBase) % LimbBase, n \div (LimbBase * LimbBase)>>

BigLimb(a, i) == IF i <= Len(a) THEN a[i] ELSE 0

RECURSIVE BigAddFrom(_, _, _, _)
BigAddFrom(a, b, i, carry) ==
  IF i > Len(a) /\ i > Len(b)
  THEN (IF carry = 0 THEN <<>> ELSE <<carry>>)
  ELSE LET s == BigLimb(a, i) + BigLimb(b, i) + carry
       IN  <<s % LimbBase>> \o BigAddFrom(a, b, i + 1, s \div LimbBase)

BigAdd(a, b) == BigAddFrom(a, b, 1, 0)

\* a - b for a >= b.
RECURSIVE BigSubFrom(_, _, _, _)
BigSubFrom(a, b, i, borrow) ==
  IF i > Len(a) THEN <<>>
  ELSE LET d == a[i] - BigLimb(b, i) - borrow
       IN  IF d < 0
           THEN <<d + LimbBase>> \o BigSubFrom(a, b, i + 1, 1)
           ELSE <<d>> \o BigSubFrom(a, b, i + 1, 0)

BigSub(a, b) == BigNorm(BigSubFrom(a, b, 1, 0))

\* -1, 0, 1 as a < b, a = b, a > b (both normalised).
RECURSIVE BigCmpFrom(_, _, _)
BigCmpFrom(a, b, i) ==
  IF i = 0 THEN 0
  ELSE IF a[i] < b[i] THEN -1
  ELSE IF a[i] > b[i] THEN 1
  ELSE BigCmpFrom(a, b, i - 1)

BigCmp(a, b) ==
  IF Len(a) < Len(b) THEN -1
  ELSE IF Len(a) > Len(b) THEN 1
  ELSE BigCmpFrom(a, b, Len(a))

\* a * k for 0 <= k < LimbBase.
RECURSIVE BigMulSmallFrom(_, _, _, _)
BigMulSmallFrom(a, k, i, carry) ==
  IF i > Len(a)
  THEN (IF carry = 0 THEN <<>> ELSE <<carry>>)
  ELSE LET p == a[i] * k + carry
       IN  <<p % LimbBase>> \o BigMulSmallFrom(a, k, i + 1, p \div LimbBase)

BigMulSmall(a, k) == IF k = 0 THEN <<>> ELSE BigMulSmallFrom(a, k, 1, 0)

RECURSIVE BigMulFrom(_, _, _)
BigMulFrom(a, b, j) ==
  IF j > Len(b) THEN <<>>
  ELSE LET rest == BigMulFrom(a, b, j + 1)
       IN  BigAdd(BigMulSmall(a, b[j]),
                  IF rest = <<>> THEN <<>> ELSE <<0>> \o rest)

BigMul(a, b) == IF a = <<>> \/ b = <<>> THEN <<>> ELSE BigMulFrom(a, b, 1)

\* Quotient and remainder of a by d, 0 < d < LimbBase; limbs taken from the
\* most significant down.
RECURSIVE BigDivSmallFrom(_, _, _, _)
BigDivSmallFrom(a, d, i, rem) ==
  IF i = 0 THEN [quo |-> <<>>, rem |-> rem]
  ELSE LET cur  == rem * LimbBase + a[i]
           rest == BigDivSmallFrom(a, d, i - 1, cur % d)
       IN  [quo |-> Append(rest.quo, cur \div d), rem |-> rest.rem]

BigDivSmall(a, d) ==
  LET r == BigDivSmallFrom(a, d, Len(a), 0)
  IN  [quo |-> BigNorm(r.quo), rem |-> r.rem]

BigZeros(n) == [i \in 1..n |-> 0]

\* a * 2^n
BigShl(a, n) ==
  IF a = <<>> THEN <<>>
  ELSE BigZeros(n \div LimbBits) \o BigMulSmall(a, Pow2(n % LimbBits))

\* floor(a / 2^n)
BigShr(a, n) ==
  LET k == n \div LimbBits
  IN  IF k >= Len(a) THEN <<>>
      ELSE BigDivSmall(SubSeq(a, k + 1, Len(a)), Pow2(n % LimbBits)).quo

BigBitLen(a) ==
  IF a = <<>> THEN 0 ELSE LimbBits * (Len(a) - 1) + SmallBitLen(a[Len(a)])

\* Number of trailing zero bits of a natural in 1..LimbBase-1.
RECURSIVE SmallTrailingZeros(_)
SmallTrailingZeros(n) == IF n % 2 = 1 THEN 0 ELSE 1 + SmallTrailingZeros(n \div 2)

\* Number of trailing zero bits of a non-zero big natural.
RECURSIVE BigTrailingZeros(_, _)
BigTrailingZeros(a, i) ==
  IF a[i] = 0 THEN LimbBits + BigTrailingZeros(a, i + 1)
  ELSE SmallTrailingZeros(a[i])

\* ------------------------------------------------------------------------
\* f64: IEEE-754 binary64 arithmetic, round to nearest, ties to even
\* ------------------------------------------------------------------------

\* Significand precision of f64.
MantissaBits == 53

\* A float is zero (man = <<>>, sign 0, exp 0) or (-1)^sign * man * 2^exp
\* with man odd, so that every value has one representation.
FZero == [sign |-> 0, man |-> <<>>, exp |-> 0]

\* The float of the exact value (-1)^sign * m * 2^e, m of at most
\* MantissaBits bits: trailing zero bits move into the exponent.
FCanon(sign, m, e) ==
  IF m = <<>> THEN FZero
  ELSE LET tz == BigTrailingZeros(m, 1)
       IN  [sign |-> sign, man |-> BigShr(m, tz), exp |-> e + tz]

\* Rounding of the exact value (-1)^sign * m * 2^e to MantissaBits bits:
\* to nearest, ties to the even significand.
FRound(sign, m, e) ==
  LET bits == BigBitLen(m)
  IN  IF bits <= MantissaBits THEN FCanon(sign, m, e)
      ELSE LET drop == bits - MantissaBits
               q    == BigShr(m, drop)
               rest == BigSub(m, BigShl(q, drop))
               half == BigShl(<<1>>, drop - 1)
               c    == BigCmp(rest, half)
               up   == c = 1 \/ (c = 0 /\ q[1] % 2 = 1)
           IN  FCanon(sign, IF up THEN BigAdd(q, <<1>>) ELSE q, e + drop)

\* `n as f64` for a usize n below 2^45 (exact).
FFromInt(n) == FCanon(0, BigFromInt(n), 0)

\* A literal k * 2^e (k an integer, e an integer).
FLit(k, e) == IF k < 0 THEN FCanon(1, BigFromInt(-k), e) ELSE FCanon(0, BigFromInt(k), e)

FNeg(x) == IF x.man = <<>> THEN x ELSE [x EXCEPT !.sign = 1 - x.sign]

\* Exact sum of two floats as an unrounded (sign, mantissa, exponent).
FExactAdd(x, y) ==
  IF x.man = <<>> THEN y
  ELSE IF y.man = <<>> THEN x
  ELSE LET e  == IF x.exp < y.exp THEN x.exp ELSE y.exp
           mx == BigShl(x.man, x.exp - e)
           my == BigShl(y.man, y.exp - e)
           c  == BigCmp(mx, my)
       IN  IF x.sign = y.sign THEN [sign |-> x.sign, man |-> BigAdd(mx, my), exp |-> e]
           ELSE IF c = 0 THEN FZero
           ELSE IF c = 1 THEN [sign |-> x.sign, man |-> BigSub(mx, my), exp |-> e]
           ELSE [sign |-> y.sign, man |-> BigSub(my, mx), exp |-> e]

\* x + y
FAdd(x, y) == LET s == FExactAdd(x, y) IN FRound(s.sign, s.man, s.exp)

\* x - y
FSub(x, y) == FAdd(x, FNeg(y))

\* x * y
FMul(x, y) ==
  IF x.man = <<>> \/ y.man = <<>> THEN FZero
  ELSE FRound((x.sign + y.sign) % 2, BigMul(x.man, y.man), x.exp + y.exp)

\* x / y for a divisor whose odd significand is below LimbBase (every
\* `usize as f64` below 2^15 is one): the quotient is taken to at least
\* MantissaBits + 3 bits, the remainder folded into a sticky last bit.
FDiv(x, y) ==
  IF x.man = <<>> THEN FZero
  ELSE LET k  == MantissaBits + 3 + LimbBits
           qr == BigDivSmall(BigShl(x.man, k), y.man[1])
           m  == BigAdd(BigShl(qr.quo, 1), IF qr.rem = 0 THEN <<>> ELSE <<1>>)
       IN  FRound((x.sign + y.sign) % 2, m, x.exp - y.exp - k - 1)

\* x > y
FGt(x, y) ==
  LET d == FExactAdd(x, FNeg(y)) IN d.man # <<>> /\ d.sign = 0

\* ------------------------------------------------------------------------
\* num_complex::Complex<f64>
\* ------------------------------------------------------------------------

Complex(re, im) == [re |-> re, im |-> im]

\* Complex::add
CAdd(a, b) == Complex(FAdd(a.re, b.re), FAdd(a.im, b.im))

\* Complex::mul: (a.re*b.re - a.im*b.im, a.re*b.im + a.im*b.re)
CMul(a, b) ==
  Complex(FSub(FMul(a.re, b.re), FMul(a.im, b.im)),
          FAdd(FMul(a.re, b.im), FMul(a.im, b.re)))

\* Complex::norm_sqr: re*re + im*im
norm_sqr(z) == FAdd(FMul(z.re, z.re), FMul(z.im, z.im))

\* ------------------------------------------------------------------------
\* Pure functions of main.rs
\* ------------------------------------------------------------------------

\* Option<usize>
None == <<>>

Some(i) == <<i>>

\* The divergence threshold 8.0 on the squared norm.
EscapeThreshold == FLit(8, 0)

\* A faulty pass of the loop, for C7: z is updated before it is tested, so
\* the index returned is one less than the index of the first z that is
\* beyond the threshold.
escape_step_late(c, st) ==
  LET z == CAdd(CMul(st.z, st.z), c)
  IN  IF FGt(norm_sqr(z), EscapeThreshold)
      THEN [st EXCEPT !.ret = Some(st.i)]
      ELSE [z |-> z, i |-> st.i + 1, ret |-> None]

\* One pass through the body of the `for i in 0..limit` loop of escape_time.
\* The loop state is the current z, the index i and the value returned so
\* far (ret = None while the loop is still running).
escape_step(c, st) ==
  IF FGt(norm_sqr(st.z), EscapeThreshold)
  THEN [st EXCEPT !.ret = Some(st.i)]
  ELSE [z |-> CAdd(CMul(st.z, st.z), c), i |-> st.i + 1, ret |-> None]

\* n consecutive passes through the loop body, stopping at the first return.
\* The passes are split in halves so that the evaluation depth stays
\* logarithmic in n; the passes run are the same, in the same order.
RECURSIVE escape_loop(_, _, _)
escape_loop(c, st, n) ==
  IF n = 0 \/ st.ret # None THEN st
  ELSE IF n = 1 THEN escape_step(c, st)
  ELSE escape_loop(c, escape_loop(c, st, n \div 2), n - n \div 2)

escape_time(c, limit) ==
  escape_loop(c, [z |-> Complex(FZero, FZero), i |-> 0, ret |-> None], limit).ret

\* pixel_to_point(bounds, pixel, upper_left_corner, lower_right_corner);
\* b and px are the pairs bounds and pixel (bounds.0 = b[1]).
pixel_to_point(b, px, upper_left_corner, lower_right_corner) ==
  LET width  == FSub(lower_right_corner.re, upper_left_corner.re)
      height == FSub(upper_left_corner.im, lower_right_corner.im)
  IN  Complex(FAdd(upper_left_corner.re,
                   FMul(FFromInt(px[1]), FDiv(width, FFromInt(b[1])))),
              FSub(upper_left_corner.im,
                   FMul(FFromInt(px[2]), FDiv(height, FFromInt(b[2])))))

\* The worker count chosen by render_concurrent.
threads == 8

\* The iteration limit render passes to escape_time.
IterationLimit == 255

\* The u8 literal 255 the escape count is subtracted from.
White == 255

\* Number of values of a u8.
U8Modulus == 256

\* A faulty rows_per_band, for C8: the `+ 1` is left out.
RowsPerBandFloor(height) == height \div threads

\* bounds.1 / threads + 1
RowsPerBand(height) == height \div threads + 1

\* slice::chunks_mut(chunk_size) over a slice of n elements, from offset
\* off: consecutive pieces of chunk_size elements, the last one holding what
\* is left; no piece is produced once the slice is used up.
RECURSIVE ChunksFrom(_, _, _)
ChunksFrom(off, n, chunk_size) ==
  IF off >= n \/ chunk_size = 0 THEN <<>>
  ELSE <<[off |-> off,
          len |-> IF n - off < chunk_size THEN n - off ELSE chunk_size]>>
       \o ChunksFrom(off + chunk_size, n, chunk_size)

\* slice::chunks_exact_mut in the place of chunks_mut, for C1: the elements
\* left over after the last full piece are in no piece.
chunks_exact_mut(n, chunk_size) ==
  IF chunk_size = 0 THEN <<>>
  ELSE [i \in 1..(n \div chunk_size) |->
          [off |-> (i - 1) * chunk_size, len |-> chunk_size]]

chunks_mut(n, chunk_size) == ChunksFrom(0, n, chunk_size)

\* A faulty band height, for C10: one row more than the band holds.
BandHeightPlusOne(len, width) == len \div width + 1

\* band.len() / bounds.0
BandHeight(len, width) == len \div width

\* A faulty top, for C9: the top of the band after band i.
BandTopOfNext(rpb, i) == rpb * (i + 1)

\* rows_per_band * i
BandTop(rpb, i) == rpb * i

\* render without its assertion, for C5.
LenUnchecked(len, b) == TRUE

\* The condition of assert_eq!(pixel.len(), bounds.0 * bounds.1).
LenMatches(len, b) == len = b[1] * b[2]

\* A faulty index, for C3: the row is not scaled by the width.
PixelIndexUnscaled(b, row, col) == row + col

\* row * bounds.0 + col
PixelIndex(b, row, col) == row * b[1] + col

\* A faulty shade, for C6: the count itself.
ShadeOfCount(et) ==
  IF et = None THEN 0 ELSE et[1] % U8Modulus

\* match escape_time(point, 255) { None => 0, Some(count) => 255 - count as u8 }
\* The subtraction is a u8 one: its result is kept modulo 2^8.
Shade(et) ==
  IF et = None THEN 0
  ELSE (White - (et[1] % U8Modulus)) % U8Modulus

\* ------------------------------------------------------------------------
\* Inputs
\* ------------------------------------------------------------------------

MaxWidth == 2

MaxHeight == 9

MaxPixels == 16

\* The bounds render_concurrent is run on to the end.
BoundsSet ==
  {b \in (1..MaxWidth) \X (1..MaxHeight) : b[1] * b[2] <= MaxPixels}

\* (-2.0, 0.5) .. (6.0, -1.0)
CornersWide == <<Complex(FLit(-2, 0), FLit(1, -1)), Complex(FLit(6, 0), FLit(-1, 0))>>

\* (0.5, 1.5) .. (1.5, 0.5)
CornersOutside == <<Complex(FLit(1, -1), FLit(3, -1)), Complex(FLit(3, -1), FLit(1, -1))>>

\* (-1.0, 1.0) .. (1.0, -1.0), the rectangle of test_pixel_to_point
CornersUnit == <<Complex(FLit(-1, 0), FLit(1, 0)), Complex(FLit(1, 0), FLit(-1, 0))>>

CornerSet == {CornersWide, CornersOutside}

BandsMaxWidth == 2

BandsMaxHeight == 72

\* The bounds the partition and the spawning loop are run on.
BandsBoundsSet == (1..BandsMaxWidth) \X (1..BandsMaxHeight)

HarnessMaxRows == 2

HarnessMaxLen == 4

MaxLimit == 12

\* The points escape_time is called on by itself: re in -2.0 .. 3.0 by 0.5,
\* im in 0.0 .. 1.0 by 0.25.
ProbePoints == {Complex(FLit(a, -1), FLit(b, -2)) : a \in -4..6, b \in 0..4}

NoProbe == <<>>

\* ------------------------------------------------------------------------
\* The calls of pixel_to_point and escape_time, tabulated
\*
\* pixel_to_point and escape_time are pure.  Their values on every argument
\* list that occurs are computed once, below; a run starts with the values
\* for its own calls in corner_points and escape_counts and the steps look
\* them up there.
\* ------------------------------------------------------------------------

\* The arguments of a pixel_to_point call.
Call(b, px, ul, lr) ==
  [bounds |-> b, pixel |-> px, upper_left |-> ul, lower_right |-> lr]

\* The bands render_concurrent cuts the buffer of bounds b into (lines 55-56).
BandsOf(b) == chunks_mut(b[1] * b[2], RowsPerBand(b[2]) * b[1])

\* The two pixel_to_point calls of lines 63-65 for band i of b.
CornerCallsOf(b, ul, lr, i) ==
  LET top    == BandTop(RowsPerBand(b[2]), i)
      height == BandHeight(BandsOf(b)[i + 1].len, b[1])
  IN  {Call(b, <<0, top>>, ul, lr), Call(b, <<b[1], top + height>>, ul, lr)}

\* The pixel_to_point calls of lines 63-65 of one render_concurrent call.
RunCornerCalls(b, ul, lr) ==
  UNION {CornerCallsOf(b, ul, lr, i) : i \in 0..(Len(BandsOf(b)) - 1)}

CornerCalls ==
  UNION {RunCornerCalls(in[1], in[2][1], in[2][2]) :
           in \in (BoundsSet \X CornerSet) \cup (BandsBoundsSet \X {CornersUnit})}

\* pixel_to_point on the calls of lines 63-65.
CornerPoint ==
  [k \in CornerCalls |->
     pixel_to_point(k.bounds, k.pixel, k.upper_left, k.lower_right)]

\* The thread spawned for a band: the values its closure captures (the
\* arguments of its render call), its position in render's loops, and top,
\* the local of the spawning loop for its band.
Worker(b, band, ul, lr, top) ==
  [state |-> "spawned", bounds |-> b, off |-> band.off, len |-> band.len,
   upper_left |-> ul, lower_right |-> lr, row |-> 0, col |-> 0, top |-> top]

\* Lines 60-69: the thread spawned for band i, the i-th chunk `band`;
\* points holds the values of pixel_to_point.
SpawnedWorker(points, b, ul, lr, rpb, band, i) ==
  LET top    == BandTop(rpb, i)
      height == BandHeight(band.len, b[1])
      band_bounds == <<b[1], height>>
      band_upper_left == points[Call(b, <<0, top>>, ul, lr)]
      band_lower_right == points[Call(b, <<b[1], top + height>>, ul, lr)]
  IN  Worker(band_bounds, band, band_upper_left, band_lower_right, top)

\* The passes of render's loops over bounds b: every (col, row).
RenderCallsOf(b, ul, lr) ==
  {Call(b, <<col, row>>, ul, lr) : col \in 0..(b[1] - 1), row \in 0..(b[2] - 1)}

\* The render calls of the bands of one render_concurrent call.
BandRenderCalls(points, b, ul, lr) ==
  UNION {LET w == SpawnedWorker(points, b, ul, lr, RowsPerBand(b[2]),
                                BandsOf(b)[i + 1], i)
         IN  RenderCallsOf(w.bounds, w.upper_left, w.lower_right) :
           i \in 0..(Len(BandsOf(b)) - 1)}

\* The render calls on slices of any length (the corners are CornersOutside).
HarnessCalls ==
  UNION {RenderCallsOf(b, CornersOutside[1], CornersOutside[2]) :
           b \in (1..MaxWidth) \X (0..HarnessMaxRows)}

RenderCalls ==
  UNION {BandRenderCalls(CornerPoint, in[1], in[2][1], in[2][2])
           \cup RenderCallsOf(in[1], in[2][1], in[2][2]) :
           in \in BoundsSet \X CornerSet}
    \cup HarnessCalls

\* Lines 113 and 115: the point of a pixel and its escape_time.
EscapeCount ==
  [k \in RenderCalls |->
     escape_time(pixel_to_point(k.bounds, k.pixel, k.upper_left, k.lower_right),
                 IterationLimit)]

\* render on a slice of the right length: the slice it leaves behind.
render(b, ul, lr) ==
  [idx \in 0..(b[1] * b[2] - 1) |->
     Shade(EscapeCount[Call(b, <<idx % b[1], idx \div b[1]>>, ul, lr)])]

\* ------------------------------------------------------------------------
\* render_concurrent
\* ------------------------------------------------------------------------

\* The state before the first statement of render_concurrent.
Entry ==
  /\ pc = "start"
  /\ pixels = <<>>
  /\ rows_per_band = 0
  /\ bands = <<>>
  /\ next_band = 0
  /\ workers = <<>>
  /\ writers = <<>>
  /\ counts = <<>>
  /\ probe = NoProbe

Init ==
  /\ bounds \in BoundsSet
  /\ \E cs \in CornerSet : upper_left = cs[1] /\ lower_right = cs[2]
  /\ corner_points =
       [k \in RunCornerCalls(bounds, upper_left, lower_right) |-> CornerPoint[k]]
  /\ escape_counts =
       [k \in BandRenderCalls(corner_points, bounds, upper_left, lower_right) |->
          EscapeCount[k]]
  /\ Entry

\* Lines 52-56: allocate the zeroed buffer, compute rows_per_band, split the
\* buffer into bands (chunks_mut panics on a chunk size of 0); the scope
\* closure is entered next.
Enter ==
  /\ pc = "start"
  /\ LET n   == bounds[1] * bounds[2]
         rpb == RowsPerBand(bounds[2])
     IN  /\ pixels' = [k \in 0..(n - 1) |-> 0]
         /\ rows_per_band' = rpb
         /\ bands' = chunks_mut(n, rpb * bounds[1])
         /\ writers' = [k \in 0..(n - 1) |-> <<>>]
         /\ counts' = [k \in 0..(n - 1) |-> None]
         /\ pc' = IF rpb * bounds[1] = 0 THEN "panicked" ELSE "scope"
  /\ next_band' = 0
  /\ UNCHANGED <<args, workers, probe>>

\* Lines 59-69: one pass of the loop over the bands.
Spawn ==
  /\ pc = "scope"
  /\ next_band < Len(bands)
  /\ workers' = Append(workers,
                       SpawnedWorker(corner_points, bounds, upper_left, lower_right,
                                     rows_per_band, bands[next_band + 1], next_band))
  /\ next_band' = next_band + 1
  /\ UNCHANGED <<args, pc, pixels, rows_per_band, bands, writers, counts, probe>>

\* Line 109 in worker i: the length assertion, then the entry of the loops.
RenderAssert(i) ==
  /\ i \in 1..Len(workers)
  /\ workers[i].state = "spawned"
  /\ LET w == workers[i]
     IN  workers' =
           [workers EXCEPT ![i].state =
              IF ~LenMatches(w.len, w.bounds) THEN "panicked"
              ELSE IF w.bounds[1] = 0 \/ w.bounds[2] = 0 THEN "done"
              ELSE "rendering"]
  /\ UNCHANGED <<args, pc, pixels, rows_per_band, bands, next_band, writers, counts,
                 probe>>

\* The (row, col) after (row, col) in `for row in 0..bounds.1 { for col in 0..bounds.0 }`.
NextPosition(b, row, col) ==
  IF col + 1 < b[1] THEN <<row, col + 1>> ELSE <<row + 1, 0>>

\* Lines 113-118 in worker i: one pass of the inner loop.  Indexing the
\* slice beyond its length panics.
RenderPixel(i) ==
  /\ i \in 1..Len(workers)
  /\ workers[i].state = "rendering"
  /\ LET w   == workers[i]
         et  == escape_counts[Call(w.bounds, <<w.col, w.row>>,
                                   w.upper_left, w.lower_right)]
         idx == PixelIndex(w.bounds, w.row, w.col)
         nxt == NextPosition(w.bounds, w.row, w.col)
     IN  IF idx >= w.len
         THEN /\ workers' = [workers EXCEPT ![i].state = "panicked"]
              /\ UNCHANGED <<pixels, writers, counts>>
         ELSE /\ pixels' = [pixels EXCEPT ![w.off + idx] = Shade(et)]
              /\ writers' = [writers EXCEPT ![w.off + idx] = Append(@, i - 1)]
              /\ counts' = [counts EXCEPT ![w.off + idx] = et]
              /\ workers' =
                   [workers EXCEPT ![i].row = nxt[1], ![i].col = nxt[2],
                                   ![i].state = IF nxt[1] >= w.bounds[2]
                                                THEN "done" ELSE "rendering"]
  /\ UNCHANGED <<args, pc, rows_per_band, bands, next_band, probe>>

\* A scope that does not wait for its threads, for C4.
NoJoin == TRUE

\* Every spawned thread has ended.
AllJoined == \A i \in 1..Len(workers) : workers[i].state \in {"done", "panicked"}

\* Lines 70-74: the closure has returned, the scope joins every thread it
\* spawned and yields Err when one of them panicked; unwrap() panics on Err,
\* otherwise pixels is returned.
ScopeExit ==
  /\ pc = "scope"
  /\ next_band = Len(bands)
  /\ AllJoined
  /\ pc' = IF \E i \in 1..Len(workers) : workers[i].state = "panicked"
           THEN "panicked" ELSE "returned"
  /\ UNCHANGED <<args, pixels, rows_per_band, bands, next_band, workers, writers,
                 counts, probe>>

Next ==
  \/ Enter
  \/ Spawn
  \/ \E i \in 1..threads : RenderAssert(i)
  \/ \E i \in 1..threads : RenderPixel(i)
  \/ ScopeExit

Spec == Init /\ [][Next]_vars

\* ------------------------------------------------------------------------
\* The partition and the spawning loop on larger images: render_concurrent
\* up to the length assertion of each worker.
\* ------------------------------------------------------------------------

InitBands ==
  /\ bounds \in BandsBoundsSet
  /\ upper_left = CornersUnit[1]
  /\ lower_right = CornersUnit[2]
  /\ corner_points =
       [k \in RunCornerCalls(bounds, upper_left, lower_right) |-> CornerPoint[k]]
  /\ escape_counts = <<>>
  /\ Entry

NextBands ==
  \/ Enter
  \/ Spawn
  \/ \E i \in 1..threads : RenderAssert(i)

SpecBands == InitBands /\ [][NextBands]_vars

\* ------------------------------------------------------------------------
\* render on slices of any length: two threads of a scope, each calling
\* render on its slice of the buffer with bounds that need not fit the
\* slice, and the exit of the scope (lines 58-72).
\* ------------------------------------------------------------------------

\* The bounds and slice lengths render is called with.
HarnessBounds == (1..MaxWidth) \X (0..HarnessMaxRows)

InitRender ==
  /\ \E b1 \in HarnessBounds, b2 \in HarnessBounds,
        len1 \in 0..HarnessMaxLen, len2 \in 0..HarnessMaxLen :
       /\ bounds = <<len1 + len2, 1>>
       /\ pixels = [k \in 0..(len1 + len2 - 1) |-> 0]
       /\ writers = [k \in 0..(len1 + len2 - 1) |-> <<>>]
       /\ counts = [k \in 0..(len1 + len2 - 1) |-> None]
       /\ bands = <<[off |-> 0, len |-> len1], [off |-> len1, len |-> len2]>>
       /\ workers = <<Worker(b1, bands[1], CornersOutside[1], CornersOutside[2], 0),
                      Worker(b2, bands[2], CornersOutside[1], CornersOutside[2], 0)>>
  /\ upper_left = CornersOutside[1]
  /\ lower_right = CornersOutside[2]
  /\ corner_points = <<>>
  /\ escape_counts = [k \in HarnessCalls |-> EscapeCount[k]]
  /\ pc = "scope"
  /\ rows_per_band = 0
  /\ next_band = Len(bands)
  /\ probe = NoProbe

NextRender ==
  \/ \E i \in 1..threads : RenderAssert(i)
  \/ \E i \in 1..threads : RenderPixel(i)
  \/ ScopeExit

SpecRender == InitRender /\ [][NextRender]_vars

\* ------------------------------------------------------------------------
\* escape_time on its own: one point, two limits
\* ------------------------------------------------------------------------

InitEscape ==
  /\ bounds = <<0, 0>>
  /\ upper_left = CornersUnit[1]
  /\ lower_right = CornersUnit[2]
  /\ corner_points = <<>>
  /\ escape_counts = <<>>
  /\ Entry

\* escape_time(c, limit1) and escape_time(c, limit2), limit1 <= limit2.
EscapeTimeCalls ==
  /\ probe = NoProbe
  /\ \E c \in ProbePoints, limit1 \in 0..MaxLimit, limit2 \in 0..MaxLimit :
       /\ limit1 <= limit2
       /\ probe' = [c |-> c, limit1 |-> limit1, limit2 |-> limit2,
                    result1 |-> escape_time(c, limit1),
                    result2 |-> escape_time(c, limit2)]
  /\ UNCHANGED <<args, pc, pixels, rows_per_band, bands, next_band, workers,
                 writers, counts>>

NextEscape == EscapeTimeCalls

SpecEscape == InitEscape /\ [][NextEscape]_vars

\* ------------------------------------------------------------------------
\* The claims
\* ------------------------------------------------------------------------

\* The indices of band i of the run (bands[i], i from 1).
BandIndices(i) == bands[i].off .. (bands[i].off + bands[i].len - 1)

\* C1: in one render_concurrent call the bands are the consecutive pieces of
\* (height/8 + 1) * width elements of the buffer, pairwise disjoint and
\* together the whole buffer; an index is only ever written by the worker of
\* the band that holds it, never twice, and when the call has returned every
\* index has been written exactly once.
C1_EachIndexWrittenOnce ==
  LET n     == bounds[1] * bounds[2]
      piece == (bounds[2] \div 8 + 1) * bounds[1]
  IN  /\ pc # "start" =>
           /\ \A i \in 1..Len(bands) :
                /\ bands[i].off = piece * (i - 1)
                /\ bands[i].len >= 1
                /\ bands[i].len <= piece
           /\ \A i, j \in 1..Len(bands) :
                i # j => BandIndices(i) \cap BandIndices(j) = {}
           /\ UNION {BandIndices(i) : i \in 1..Len(bands)} = 0..(n - 1)
      /\ \A idx \in DOMAIN writers :
           /\ Len(writers[idx]) <= 1
           /\ \A k \in 1..Len(writers[idx]) :
                idx \in BandIndices(writers[idx][k] + 1)
      /\ pc = "returned" => \A idx \in 0..(n - 1) : Len(writers[idx]) = 1

\* C1's case: a call has returned whose buffer was cut into several bands,
\* the last one shorter than the others.
C1_Witness ==
  /\ pc = "returned"
  /\ Len(bands) >= 2
  /\ bands[Len(bands)].len < bands[1].len

\* C2, as the specification states it: the buffer render_concurrent returns
\* equals, pixel for pixel, the buffer one render call over the whole image
\* with the global bounds and corners leaves behind.
C2_EqualsSequentialRender ==
  pc = "returned" => pixels = render(bounds, upper_left, lower_right)

\* The value at index idx of the buffer of bounds b, computed band by band
\* from the arguments alone: the band of the row, its top and height, its
\* corners, and the shade of the escape time of the band-local point.
BandwisePixel(b, ul, lr, idx) ==
  LET rpb    == b[2] \div 8 + 1
      row    == idx \div b[1]
      col    == idx % b[1]
      top    == rpb * (row \div rpb)
      height == IF top + rpb <= b[2] THEN rpb ELSE b[2] - top
      band_upper_left  == CornerPoint[Call(b, <<0, top>>, ul, lr)]
      band_lower_right == CornerPoint[Call(b, <<b[1], top + height>>, ul, lr)]
      et == EscapeCount[Call(<<b[1], height>>, <<col, row - top>>,
                             band_upper_left, band_lower_right)]
  IN  IF et = None THEN 0 ELSE 255 - et[1]

\* C3: the buffer render_concurrent returns is a function of (bounds,
\* upper_left, lower_right): whatever the order in which the workers ran,
\* it is the buffer computed band by band from the arguments.
C3_ResultDependsOnArgumentsOnly ==
  pc = "returned" =>
    pixels = [idx \in 0..(bounds[1] * bounds[2] - 1) |->
                BandwisePixel(bounds, upper_left, lower_right, idx)]

\* C3's case: a call with four or more workers has returned.
C3_Witness ==
  /\ pc = "returned"
  /\ Len(workers) >= 4

\* C4: when render_concurrent has returned, a worker was spawned for every
\* band, every worker has finished the loops of render, and every index of
\* the buffer has been processed.
C4_ReturnsAfterEveryWorker ==
  pc = "returned" =>
    /\ Len(workers) = Len(bands)
    /\ \A i \in 1..Len(workers) :
         /\ workers[i].state = "done"
         /\ workers[i].row = workers[i].bounds[2]
    /\ \A idx \in 0..(bounds[1] * bounds[2] - 1) : writers[idx] # <<>>

\* C4's case: the call has returned and the last of several workers is done.
C4_Witness ==
  /\ pc = "returned"
  /\ Len(workers) >= 2
  /\ workers[Len(workers)].state = "done"

\* Worker i was given a slice whose length is not bounds.0 * bounds.1.
WrongLength(i) ==
  workers[i].len # workers[i].bounds[1] * workers[i].bounds[2]

\* C5: a render call on a slice whose length differs from width * height
\* panics as soon as it runs, no element of its slice is ever written, and
\* a scope with such a thread does not return: it panics.
C5_WrongLengthAborts ==
  /\ \A i \in 1..Len(workers) :
       WrongLength(i) =>
         /\ workers[i].state \in {"spawned", "panicked"}
         /\ workers[i].row = 0 /\ workers[i].col = 0
         /\ \A idx \in BandIndices(i) : pixels[idx] = 0 /\ writers[idx] = <<>>
  /\ (\E i \in 1..Len(workers) : WrongLength(i)) => pc # "returned"

\* C5's case: the scope has panicked because of a render call on a slice of
\* the wrong length, while the other thread has written its whole slice.
C5_Witness ==
  /\ pc = "panicked"
  /\ \E i, j \in 1..Len(workers) :
       /\ WrongLength(i)
       /\ workers[i].state = "panicked"
       /\ workers[i].len > 0
       /\ workers[j].state = "done"
       /\ workers[j].len > 0

\* C6: render goes through its band row by row, column by column; the pass
\* for (row, col) writes index row * width + col of the band: 0 when
\* escape_time(point, 255) is None, 255 - count when it is Some(count);
\* count lies in 1..254, and the value written is 0 exactly for None.
C6_ShadeOfEscapeTime ==
  /\ \A idx \in DOMAIN writers :
       writers[idx] # <<>> =>
         /\ counts[idx] = None => pixels[idx] = 0
         /\ counts[idx] # None =>
              /\ counts[idx][1] \in 1..254
              /\ pixels[idx] = 255 - counts[idx][1]
         /\ (pixels[idx] = 0) <=> (counts[idx] = None)
  /\ \A i \in 1..Len(workers) :
       LET w == workers[i]
       IN  w.state \in {"rendering", "done"} =>
             \A row \in 0..(w.bounds[2] - 1), col \in 0..(w.bounds[1] - 1) :
               LET idx == w.off + row * w.bounds[1] + col
               IN  IF row < w.row \/ (row = w.row /\ col < w.col)
                   THEN /\ writers[idx] = <<i - 1>>
                        /\ counts[idx] =
                             EscapeCount[Call(w.bounds, <<col, row>>,
                                              w.upper_left, w.lower_right)]
                   ELSE writers[idx] = <<>>

\* C6's case: the call has returned with a pixel of a point that did not
\* escape and a pixel of a point that did.
C6_Witness ==
  /\ pc = "returned"
  /\ \E idx \in DOMAIN counts : counts[idx] = None /\ pixels[idx] = 0
  /\ \E idx \in DOMAIN counts : counts[idx] # None /\ pixels[idx] > 0

\* z_0 = 0, z_1, ... of z -> z * z + c, appended to zs while fewer than n
\* more are asked for and the last one is within the threshold.
RECURSIVE OrbitFrom(_, _, _)
OrbitFrom(c, zs, n) ==
  IF n = 0 \/ FGt(norm_sqr(zs[Len(zs)]), EscapeThreshold) THEN zs
  ELSE LET z == zs[Len(zs)]
       IN  OrbitFrom(c, Append(zs, CAdd(CMul(z, z), c)), n - 1)

\* For each probe point, z_0 .. z_m: m is the first index whose z is beyond
\* the threshold, or MaxLimit when there is none up to MaxLimit.
Orbit ==
  [c \in ProbePoints |-> OrbitFrom(c, <<Complex(FZero, FZero)>>, MaxLimit)]

\* |z_j|^2 > 8 for the j-th z of c's orbit (j <= MaxLimit, and no z before
\* z_j beyond the threshold unless Orbit[c] ends there).
Exceeds(c, j) ==
  /\ j + 1 <= Len(Orbit[c])
  /\ FGt(norm_sqr(Orbit[c][j + 1]), EscapeThreshold)

\* The index escape_time returned is below the limit and is the first
\* index whose z is beyond the threshold.
FirstExceeding(c, limit, result) ==
  result # None =>
    /\ result[1] < limit
    /\ Exceeds(c, result[1])
    /\ \A j \in 0..(result[1] - 1) : ~Exceeds(c, j)

\* C7: for limit1 <= limit2, Some(k) at limit1 gives Some(k) at limit2 with
\* k < limit1, None at limit1 gives None or Some(k), k >= limit1, at limit2;
\* an index returned is below the limit and is the first iteration whose z
\* has a squared norm above 8.
C7_MonotonicInLimit ==
  probe # NoProbe =>
    /\ probe.result1 # None =>
         probe.result2 = probe.result1 /\ probe.result1[1] < probe.limit1
    /\ probe.result1 = None =>
         probe.result2 = None \/ probe.result2[1] >= probe.limit1
    /\ FirstExceeding(probe.c, probe.limit1, probe.result1)
    /\ FirstExceeding(probe.c, probe.limit2, probe.result2)

\* C7's case: a point that is still within the threshold at limit1 and is
\* found beyond it at limit2.
C7_Witness ==
  /\ probe # NoProbe
  /\ probe.result1 = None
  /\ probe.limit1 > 0
  /\ probe.result2 # None

\* The spawning loop has gone through all the bands.
AllSpawned == pc = "scope" /\ next_band = Len(bands)

\* C8, as the specification states it: every render_concurrent call spawns
\* 8 workers.
C8_EightWorkers == AllSpawned => Len(workers) = 8

\* C8, amended: render_concurrent spawns one worker per chunk, that is
\* ceil(height / rows_per_band) workers with rows_per_band = height/8 + 1:
\* between 1 and 8, exactly 8 when height/8 + height%8 > 7, and no band is
\* empty.
C8_OneWorkerPerChunk ==
  AllSpawned =>
    LET rpb == bounds[2] \div 8 + 1
        n   == (bounds[2] + rpb - 1) \div rpb
    IN  /\ Len(workers) = n
        /\ n >= 1
        /\ n <= 8
        /\ (n = 8) <=> ((bounds[2] \div 8) + (bounds[2] % 8) > 7)
        /\ \A i \in 1..Len(workers) : workers[i].len > 0

\* C8's case: an image of 8 rows, rendered by 4 workers.
C8_Witness ==
  /\ AllSpawned
  /\ bounds[2] = 8
  /\ Len(workers) = 4

\* C9: every band passed to render starts at top = rows_per_band * i, has a
\* height between 1 and rows_per_band = height/8 + 1, and ends within the
\* image.
C9_BandHeightAtLeastOne ==
  \A i \in 1..Len(workers) :
    LET w   == workers[i]
        rpb == bounds[2] \div 8 + 1
    IN  /\ w.top = rpb * (i - 1)
        /\ w.bounds[2] >= 1
        /\ w.bounds[2] <= rpb
        /\ w.top + w.bounds[2] <= bounds[2]

\* C9's case: the height is a multiple of 8 and the worker of the last band
\* is in the loops of render.
C9_Witness ==
  /\ AllSpawned
  /\ bounds[2] % 8 = 0
  /\ Len(workers) >= 1
  /\ workers[Len(workers)].state = "rendering"
  /\ workers[Len(workers)].top + workers[Len(workers)].bounds[2] = bounds[2]

\* C10: the length of every band is a multiple of the width, it is the
\* width times the band height passed to render, and no worker panics on
\* the assertion.
C10_AssertionHolds ==
  \A i \in 1..Len(workers) :
    LET w == workers[i]
    IN  /\ w.len = bounds[1] * (w.len \div bounds[1])
        /\ w.len = w.bounds[1] * w.bounds[2]
        /\ w.state # "panicked"

\* C10's case: 8 workers were spawned and all have passed the assertion.
C10_Witness ==
  /\ AllSpawned
  /\ Len(workers) = 8
  /\ \A i \in 1..Len(workers) : workers[i].state = "rendering"

====
